---------------------------- MODULE Spec2Model ----------------------------
(***************************************************************************)
(* Model of apps/whispering/src-tauri/src/tray.rs: the TrayManager (four   *)
(* mutex-guarded fields), setup_tray, the tray and menu event handlers,    *)
(* update_tray_icon and the tauri commands built on them.                  *)
(*                                                                         *)
(* Threads run the entry points.  The entry points that take a TrayManager *)
(* lock are modelled step by step (one step per lock acquisition, guard    *)
(* drop and framework call made under a guard), so that their              *)
(* interleavings are explored.  The window entry points take no lock and   *)
(* only call the framework's window API; each is one step.                 *)
(*                                                                         *)
(* SeqSpec runs every entry point, one call at a time, on a framework any  *)
(* call of which may fail.  Spec runs the lock-taking entry points         *)
(* concurrently; TraySpec runs the two tray-refreshing commands            *)
(* concurrently from the state a successful setup_tray leaves.             *)
(*                                                                         *)
(* Every framework call returns a Result; its outcome is drawn             *)
(* nondeterministically.  No critical section of the file can panic, so no *)
(* Mutex is ever poisoned and every lock() takes its Ok branch.            *)
(***************************************************************************)
EXTENDS Naturals, FiniteSets, Sequences

\* Number of threads that may be inside an entry point at the same time.
NumThreads == 2

Threads == 1..NumThreads

\* An unlocked Mutex: held by no thread.
Free == 0

\* The four Mutex fields of TrayManager (tray.rs 11-14).
Locks == {"is_recording", "close_to_tray", "start_minimized", "tray_icon_id"}

\* enum TrayState (tray.rs 191-195); NoState: no update_tray_icon call yet.
TrayState == {"Idle", "Recording", "Processing"}
NoState == "none"

\* Option<TrayIconId>: None, or the id of the tray setup_tray built.
NoId == "None"
TrayId == "Some(tray)"

\* The menu ids setup_tray registers, and one id it does not.
MenuIds == {"show", "quit", "other"}

\* TrayIconEvent values: a click <<button, button_state>>, or a non-click.
TrayEvents == {"Click(Left,Up)", "Click(Left,Down)", "Click(Right,Up)", "Enter"}

\* Outcome of a framework call; NotCalled: the handler did not make it.
NotCalled == "-"
Outcome == {"ok", "err"}

VARIABLES
    \* TrayManager
    is_recording, close_to_tray, start_minimized, tray_icon_id,
    held,          \* lock -> the thread holding its guard, or Free
    \* the framework's side
    managed,       \* a TrayManager is registered (app.try_state is Some)
    trays,         \* the app's tray collection (ids)
    tooltip, icon, \* what the tray icon shows
    window,        \* the "main" webview window
    exit_code,     \* "running", or the code app.exit was called with
    serial,        \* entry points are dispatched one at a time
    reliable,      \* the framework's tray calls and the icon read never fail
    toggles,       \* the visibility each of the latest consecutive successful
                   \* toggle_window_visibility calls found (the last two)
    \* each thread's call frame
    pc, op, arg, state, info, fw, result

mgr == <<is_recording, close_to_tray, start_minimized, tray_icon_id>>
tray == <<trays, tooltip, icon>>
env == <<managed, serial, reliable>>
frame == <<op, arg, state, info, fw, result>>
vars == <<mgr, held, env, tray, window, exit_code, toggles, pc, frame>>

-----------------------------------------------------------------------------
\* Pure functions of the file.

\* MUTANT of get_tray_info: Recording and Processing rows swapped.
get_tray_info_swapped(s) ==
    CASE s = "Idle" -> <<"icons/tray-idle.png", "Whispering - Idle">>
      [] s = "Recording" -> <<"icons/tray-processing.png", "Whispering - Processing">>
      [] s = "Processing" -> <<"icons/tray-recording.png", "Whispering - Recording">>

\* get_tray_info (tray.rs 198-204): <<icon path, tooltip>>.
get_tray_info(s) ==
    CASE s = "Idle" -> <<"icons/tray-idle.png", "Whispering - Idle">>
      [] s = "Recording" -> <<"icons/tray-recording.png", "Whispering - Recording">>
      [] s = "Processing" -> <<"icons/tray-processing.png", "Whispering - Processing">>

NoInfo == <<"", "">>

\* TrayManager::is_recording (tray.rs 37-39).
get_is_recording == is_recording

\* TrayManager::should_close_to_tray (tray.rs 52-54).
should_close_to_tray == close_to_tray

\* should_hide_to_tray (tray.rs 270-274).
should_hide_to_tray == IF managed THEN should_close_to_tray ELSE FALSE

\* Outcomes the framework may give to the window calls of one handler.
WindowOutcomes ==
    [is_visible : Outcome, show : Outcome, set_focus : Outcome, hide : Outcome]

\* std::fs::read followed by Image::from_bytes (tray.rs 169-170).
ReadOutcome == {"ok", "read_err", "decode_err"}

\* What a tray call (of outcomes S) may return now.
May(S) == IF reliable THEN {"ok"} ELSE S

\* The framework calls an entry point has made so far, with their outcomes.
NoFw == [is_visible |-> NotCalled, show |-> NotCalled, set_focus |-> NotCalled,
         hide |-> NotCalled, set_tooltip |-> NotCalled, read_icon |-> NotCalled,
         set_icon |-> NotCalled]

\* A window-function result: the window afterwards, Ok or Err, the calls made.
Res(w, r, made) == [window |-> w, result |-> r, fw |-> made]

\* TrayManager::show_window (tray.rs 57-63).
show_window(w, o, made) ==
    IF ~w.exists THEN Res(w, "Ok", made)
    ELSE IF o.show = "err" THEN Res(w, "Err", [made EXCEPT !.show = "err"])
    ELSE IF o.set_focus = "err"
         THEN Res([w EXCEPT !.visible = TRUE], "Err",
                  [made EXCEPT !.show = "ok", !.set_focus = "err"])
    ELSE Res([w EXCEPT !.visible = TRUE, !.focused = TRUE], "Ok",
             [made EXCEPT !.show = "ok", !.set_focus = "ok"])

\* TrayManager::hide_window (tray.rs 66-71).
hide_window(w, o, made) ==
    IF ~w.exists THEN Res(w, "Ok", made)
    ELSE IF o.hide = "err" THEN Res(w, "Err", [made EXCEPT !.hide = "err"])
    ELSE Res([w EXCEPT !.visible = FALSE, !.focused = FALSE], "Ok",
             [made EXCEPT !.hide = "ok"])

\* MUTANT of toggle_window_visibility_fn: the branches are inverted.
toggle_window_visibility_inverted(w, o) ==
    IF ~w.exists THEN Res(w, "Ok", NoFw)
    ELSE IF o.is_visible = "err" THEN Res(w, "Err", [NoFw EXCEPT !.is_visible = "err"])
    ELSE IF w.visible THEN show_window(w, o, [NoFw EXCEPT !.is_visible = "ok"])
    ELSE hide_window(w, o, [NoFw EXCEPT !.is_visible = "ok"])

\* toggle_window_visibility (tray.rs 246-255).
toggle_window_visibility_fn(w, o) ==
    IF ~w.exists THEN Res(w, "Ok", NoFw)
    ELSE IF o.is_visible = "err" THEN Res(w, "Err", [NoFw EXCEPT !.is_visible = "err"])
    ELSE IF w.visible THEN hide_window(w, o, [NoFw EXCEPT !.is_visible = "ok"])
    ELSE show_window(w, o, [NoFw EXCEPT !.is_visible = "ok"])

\* MUTANT of handle_tray_event_fn: any button-up click toggles.
handle_tray_event_any_button(w, ev, o) ==
    IF ev \in {"Click(Left,Up)", "Click(Right,Up)"} /\ w.exists
    THEN LET q == [NoFw EXCEPT !.is_visible = o.is_visible]
             r == IF o.is_visible = "ok" /\ w.visible
                  THEN hide_window(w, o, q) ELSE show_window(w, o, q)
         IN Res(r.window, "Ok", r.fw)
    ELSE Res(w, "Ok", NoFw)

\* handle_tray_event (tray.rs 112-133): is_visible().unwrap_or(false), and
\* the show/hide results are dropped.
handle_tray_event_fn(w, ev, o) ==
    IF ev = "Click(Left,Up)" /\ w.exists
    THEN LET q == [NoFw EXCEPT !.is_visible = o.is_visible]
             r == IF o.is_visible = "ok" /\ w.visible
                  THEN hide_window(w, o, q) ELSE show_window(w, o, q)
         IN Res(r.window, "Ok", r.fw)
    ELSE Res(w, "Ok", NoFw)

\* The arguments of an entry point: its booleans, or the event delivered.
NoArg == [flag |-> FALSE, flag2 |-> FALSE, event |-> "none"]

-----------------------------------------------------------------------------
\* The state after TrayManager::new (tray.rs 19-26), before setup_tray.
Init ==
    /\ is_recording = FALSE
    /\ close_to_tray = FALSE
    /\ start_minimized = FALSE
    /\ tray_icon_id = NoId
    /\ held = [l \in Locks |-> Free]
    /\ managed \in BOOLEAN
    /\ serial \in BOOLEAN
    /\ reliable \in BOOLEAN
    /\ trays = {}
    /\ tooltip = "none"
    /\ icon = "none"
    /\ window \in {w \in [exists : BOOLEAN, visible : BOOLEAN, focused : BOOLEAN] :
                     /\ w.focused => w.visible
                     /\ w.visible => w.exists}
    /\ exit_code = "running"
    /\ toggles = <<>>
    /\ pc = [t \in Threads |-> "idle"]
    /\ op = [t \in Threads |-> "none"]
    /\ arg = [t \in Threads |-> NoArg]
    /\ state = [t \in Threads |-> NoState]
    /\ info = [t \in Threads |-> NoInfo]
    /\ fw = [t \in Threads |-> NoFw]
    /\ result = [t \in Threads |-> "none"]

-----------------------------------------------------------------------------
\* Thread t is at step p of its entry point, and the process has not exited.
\* A finished entry point returns before any other thread's next step: the
\* return touches no shared state, so this loses no interleaving of the
\* steps that do.
At(t, p) ==
    /\ exit_code = "running"
    /\ pc[t] = p
    /\ p # "done" => \A u \in Threads : pc[u] # "done"

\* The framework dispatches a new call to thread t.
CanCall(t) ==
    /\ At(t, "idle")
    /\ serial => \A u \in Threads : pc[u] = "idle"

\* Thread t enters entry point o with arguments a, at step p.
Enter(t, o, a, p) ==
    /\ pc' = [pc EXCEPT ![t] = p]
    /\ op' = [op EXCEPT ![t] = o]
    /\ arg' = [arg EXCEPT ![t] = a]

\* The entry point of thread t returns r.
Finish(t, r) ==
    /\ pc' = [pc EXCEPT ![t] = "done"]
    /\ result' = [result EXCEPT ![t] = r]

Acquire(l, t) == held' = [held EXCEPT ![l] = t]
Release(l) == held' = [held EXCEPT ![l] = Free]

-----------------------------------------------------------------------------
\* update_tray_recording_state (tray.rs 208-221) and set_recording_state.

call_update_tray_recording_state(t) ==
    /\ CanCall(t)
    /\ managed       \* the command takes tauri::State<TrayManager>
    /\ \E r \in BOOLEAN :
         Enter(t, "update_tray_recording_state", [NoArg EXCEPT !.flag = r],
               "set_recording_state")
    /\ toggles' = <<>>
    /\ UNCHANGED <<mgr, held, env, tray, window, exit_code,
                   state, info, fw, result>>

\* MUTANT of set_recording_state: stores the negation of its argument.
set_recording_state_negated(t) ==
    /\ At(t, "set_recording_state")
    /\ held["is_recording"] = Free
    /\ Acquire("is_recording", t)
    /\ is_recording' = ~arg[t].flag
    /\ pc' = [pc EXCEPT ![t] = "set_recording_state_drop"]
    /\ UNCHANGED <<close_to_tray, start_minimized, tray_icon_id, env, tray,
                   window, exit_code, toggles, frame>>

\* TrayManager::set_recording_state (tray.rs 29-31): lock and store.
set_recording_state(t) ==
    /\ At(t, "set_recording_state")
    /\ held["is_recording"] = Free
    /\ Acquire("is_recording", t)
    /\ is_recording' = arg[t].flag
    /\ pc' = [pc EXCEPT ![t] = "set_recording_state_drop"]
    /\ UNCHANGED <<close_to_tray, start_minimized, tray_icon_id, env, tray,
                   window, exit_code, toggles, frame>>

\* MUTANT of set_recording_state_drop: the guard outlives the call.
set_recording_state_keep_guard(t) ==
    /\ At(t, "set_recording_state_drop")
    /\ state' = [state EXCEPT ![t] = IF arg[t].flag THEN "Recording" ELSE "Idle"]
    /\ pc' = [pc EXCEPT ![t] = "update_tray_icon"]
    /\ UNCHANGED <<mgr, held, env, tray, window, exit_code, toggles,
                   op, arg, info, fw, result>>

\* The guard is dropped (tray.rs 33); the command picks its TrayState (217).
set_recording_state_drop(t) ==
    /\ At(t, "set_recording_state_drop")
    /\ Release("is_recording")
    /\ state' = [state EXCEPT ![t] = IF arg[t].flag THEN "Recording" ELSE "Idle"]
    /\ pc' = [pc EXCEPT ![t] = "update_tray_icon"]
    /\ UNCHANGED <<mgr, env, tray, window, exit_code, toggles,
                   op, arg, info, fw, result>>

\* update_tray_processing_state (tray.rs 225-234).
call_update_tray_processing_state(t) ==
    /\ CanCall(t)
    /\ \E p \in BOOLEAN :
         /\ Enter(t, "update_tray_processing_state", [NoArg EXCEPT !.flag = p],
                  "update_tray_icon")
         /\ state' = [state EXCEPT ![t] = IF p THEN "Processing" ELSE "Idle"]
    /\ toggles' = <<>>
    /\ UNCHANGED <<mgr, held, env, tray, window, exit_code,
                   info, fw, result>>

-----------------------------------------------------------------------------
\* update_tray_icon (tray.rs 153-187).

\* get_tray_info and app.try_state (tray.rs 157-160).
update_tray_icon(t) ==
    /\ At(t, "update_tray_icon")
    /\ info' = [info EXCEPT ![t] = get_tray_info(state[t])]
    /\ IF managed
       THEN /\ pc' = [pc EXCEPT ![t] = "lock_tray_icon_id"]
            /\ UNCHANGED result
       ELSE Finish(t, "Ok")
    /\ UNCHANGED <<mgr, held, env, tray, window, exit_code, toggles,
                   op, arg, state, fw>>

\* tray_icon_id.lock() and as_ref() (tray.rs 161-162): with no id stored the
\* guard is dropped at once and the function logs and returns Ok.
lock_tray_icon_id(t) ==
    /\ At(t, "lock_tray_icon_id")
    /\ held["tray_icon_id"] = Free
    /\ IF tray_icon_id = NoId
       THEN /\ Finish(t, "Ok")
            /\ UNCHANGED held
       ELSE /\ Acquire("tray_icon_id", t)
            /\ pc' = [pc EXCEPT ![t] = "tray_by_id"]
            /\ UNCHANGED result
    /\ UNCHANGED <<mgr, env, tray, window, exit_code, toggles,
                   op, arg, state, info, fw>>

\* app.tray_by_id (tray.rs 164), under the guard.
tray_by_id(t) ==
    /\ At(t, "tray_by_id")
    /\ IF tray_icon_id \in trays
       THEN /\ pc' = [pc EXCEPT ![t] = "set_tooltip"]
            /\ UNCHANGED <<held, result>>
       ELSE /\ Release("tray_icon_id")
            /\ Finish(t, "Ok")
    /\ UNCHANGED <<mgr, env, tray, window, exit_code, toggles,
                   op, arg, state, info, fw>>

\* MUTANT of set_tooltip: the tooltip is not refreshed.
set_tooltip_skipped(t) ==
    /\ At(t, "set_tooltip")
    /\ fw' = [fw EXCEPT ![t].set_tooltip = "ok"]
    /\ pc' = [pc EXCEPT ![t] = "read_icon"]
    /\ UNCHANGED <<mgr, held, env, tray, window, exit_code, toggles,
                   op, arg, state, info, result>>

\* let _ = tray_icon.set_tooltip(Some(tooltip)) (tray.rs 166), under the guard.
set_tooltip(t) ==
    /\ At(t, "set_tooltip")
    /\ \E o \in May(Outcome) :
         /\ tooltip' = IF o = "ok" THEN info[t][2] ELSE tooltip
         /\ fw' = [fw EXCEPT ![t].set_tooltip = o]
    /\ pc' = [pc EXCEPT ![t] = "read_icon"]
    /\ UNCHANGED <<mgr, held, env, trays, icon, window, exit_code, toggles,
                   op, arg, state, info, result>>

\* MUTANT of read_icon: a failed read clears the tray icon.
read_icon_clears(t) ==
    /\ At(t, "read_icon")
    /\ \E o \in May(ReadOutcome) :
         /\ fw' = [fw EXCEPT ![t].read_icon = o]
         /\ IF o = "ok"
            THEN /\ pc' = [pc EXCEPT ![t] = "set_icon"]
                 /\ UNCHANGED <<held, result, icon>>
            ELSE /\ Release("tray_icon_id")
                 /\ icon' = "none"
                 /\ Finish(t, "Ok")
    /\ UNCHANGED <<mgr, env, trays, tooltip, window, exit_code, toggles,
                   op, arg, state, info>>

\* std::fs::read and Image::from_bytes (tray.rs 169-178), under the guard; on
\* failure a warning is logged and the function returns Ok (179).
read_icon(t) ==
    /\ At(t, "read_icon")
    /\ \E o \in May(ReadOutcome) :
         /\ fw' = [fw EXCEPT ![t].read_icon = o]
         /\ IF o = "ok"
            THEN /\ pc' = [pc EXCEPT ![t] = "set_icon"]
                 /\ UNCHANGED <<held, result>>
            ELSE /\ Release("tray_icon_id")
                 /\ Finish(t, "Ok")
    /\ UNCHANGED <<mgr, env, tray, window, exit_code, toggles,
                   op, arg, state, info>>

\* let _ = tray_icon.set_icon(Some(icon)) (tray.rs 171), then return Ok (179):
\* the guard is dropped on return.
set_icon(t) ==
    /\ At(t, "set_icon")
    /\ \E o \in May(Outcome) :
         /\ icon' = IF o = "ok" THEN info[t][1] ELSE icon
         /\ fw' = [fw EXCEPT ![t].set_icon = o]
    /\ Release("tray_icon_id")
    /\ Finish(t, "Ok")
    /\ UNCHANGED <<mgr, env, trays, tooltip, window, exit_code, toggles,
                   op, arg, state, info>>

-----------------------------------------------------------------------------
\* set_tray_settings (tray.rs 259-267) and update_settings (42-49).

call_set_tray_settings(t) ==
    /\ CanCall(t)
    /\ managed       \* the command takes tauri::State<TrayManager>
    /\ \E c \in BOOLEAN, m \in BOOLEAN :
         Enter(t, "set_tray_settings", [NoArg EXCEPT !.flag = c, !.flag2 = m],
               "update_settings")
    /\ toggles' = <<>>
    /\ UNCHANGED <<mgr, held, env, tray, window, exit_code,
                   state, info, fw, result>>

\* MUTANT of update_settings: the two arguments are stored crosswise.
update_settings_crossed(t) ==
    /\ At(t, "update_settings")
    /\ held["close_to_tray"] = Free
    /\ Acquire("close_to_tray", t)
    /\ close_to_tray' = arg[t].flag2
    /\ pc' = [pc EXCEPT ![t] = "close_to_tray_drop"]
    /\ UNCHANGED <<is_recording, start_minimized, tray_icon_id, env, tray,
                   window, exit_code, toggles, frame>>

\* update_settings, first lock (tray.rs 43-44).
update_settings(t) ==
    /\ At(t, "update_settings")
    /\ held["close_to_tray"] = Free
    /\ Acquire("close_to_tray", t)
    /\ close_to_tray' = arg[t].flag
    /\ pc' = [pc EXCEPT ![t] = "close_to_tray_drop"]
    /\ UNCHANGED <<is_recording, start_minimized, tray_icon_id, env, tray,
                   window, exit_code, toggles, frame>>

\* The first guard is dropped (tray.rs 45).
close_to_tray_drop(t) ==
    /\ At(t, "close_to_tray_drop")
    /\ Release("close_to_tray")
    /\ pc' = [pc EXCEPT ![t] = "update_start_minimized"]
    /\ UNCHANGED <<mgr, env, tray, window, exit_code, toggles, frame>>

\* update_settings, second lock (tray.rs 46-47).
update_start_minimized(t) ==
    /\ At(t, "update_start_minimized")
    /\ held["start_minimized"] = Free
    /\ Acquire("start_minimized", t)
    /\ start_minimized' = arg[t].flag2
    /\ pc' = [pc EXCEPT ![t] = "start_minimized_drop"]
    /\ UNCHANGED <<is_recording, close_to_tray, tray_icon_id, env, tray,
                   window, exit_code, toggles, frame>>

\* The second guard is dropped (tray.rs 48); the command logs and returns Ok.
start_minimized_drop(t) ==
    /\ At(t, "start_minimized_drop")
    /\ Release("start_minimized")
    /\ Finish(t, "Ok")
    /\ UNCHANGED <<mgr, env, tray, window, exit_code, toggles,
                   op, arg, state, info, fw>>

-----------------------------------------------------------------------------
\* setup_tray (tray.rs 75-109).

\* Menu, default icon and tray icon are built (tray.rs 77-97); any of the
\* framework calls may fail, and `?` returns the error.
call_setup_tray(t) ==
    /\ CanCall(t)
    /\ trays = {}
    /\ \E o \in Outcome :
         IF o = "err"
         THEN /\ Enter(t, "setup_tray", NoArg, "done")
              /\ result' = [result EXCEPT ![t] = "Err"]
              /\ UNCHANGED tray
         ELSE /\ trays' = {TrayId}
              /\ tooltip' = "Whispering - Idle"
              /\ icon' = "default"
              /\ IF managed
                 THEN /\ Enter(t, "setup_tray", NoArg, "store_tray_icon_id")
                      /\ UNCHANGED result
                 ELSE /\ Enter(t, "setup_tray", NoArg, "done")
                      /\ result' = [result EXCEPT ![t] = "Ok"]
    /\ toggles' = <<>>
    /\ UNCHANGED <<mgr, held, env, window, exit_code,
                   state, info, fw>>

\* tray_icon_id.lock() and the store of the id (tray.rs 101-102).
store_tray_icon_id(t) ==
    /\ At(t, "store_tray_icon_id")
    /\ held["tray_icon_id"] = Free
    /\ Acquire("tray_icon_id", t)
    /\ tray_icon_id' = TrayId
    /\ pc' = [pc EXCEPT ![t] = "tray_icon_id_drop"]
    /\ UNCHANGED <<is_recording, close_to_tray, start_minimized, env, tray,
                   window, exit_code, toggles, frame>>

\* The guard is dropped (tray.rs 103); setup_tray returns Ok (108).
tray_icon_id_drop(t) ==
    /\ At(t, "tray_icon_id_drop")
    /\ Release("tray_icon_id")
    /\ Finish(t, "Ok")
    /\ UNCHANGED <<mgr, env, tray, window, exit_code, toggles,
                   op, arg, state, info, fw>>

-----------------------------------------------------------------------------
\* The window entry points: no lock, framework window calls only.

\* toggle_window_visibility, the command (tray.rs 246-255).
toggle_window_visibility(t) ==
    /\ CanCall(t)
    /\ \E o \in WindowOutcomes :
         LET r == toggle_window_visibility_fn(window, o) IN
           /\ window' = r.window
           /\ fw' = [fw EXCEPT ![t] = r.fw]
           /\ result' = [result EXCEPT ![t] = r.result]
           /\ toggles' = IF window.exists /\ r.result = "Ok"
                         THEN (IF Len(toggles) < 2
                               THEN Append(toggles, window.visible)
                               ELSE <<toggles[2], window.visible>>)
                         ELSE <<>>
    /\ Enter(t, "toggle_window_visibility", NoArg, "done")
    /\ UNCHANGED <<mgr, held, env, tray, exit_code, state, info>>

\* A tray icon event is delivered to the on_tray_icon_event closure
\* (tray.rs 91-93), which calls handle_tray_event.
handle_tray_event(t) ==
    /\ CanCall(t)
    /\ TrayId \in trays
    /\ \E ev \in TrayEvents, o \in WindowOutcomes :
         LET r == handle_tray_event_fn(window, ev, o) IN
           /\ window' = r.window
           /\ fw' = [fw EXCEPT ![t] = r.fw]
           /\ result' = [result EXCEPT ![t] = "()"]
           /\ toggles' = <<>>
           /\ Enter(t, "handle_tray_event", [NoArg EXCEPT !.event = ev], "done")
    /\ UNCHANGED <<mgr, held, env, tray, exit_code, state, info>>

\* MUTANT of handle_menu_event: "show" and "quit" are swapped.
handle_menu_event_swapped(t) ==
    /\ CanCall(t)
    /\ TrayId \in trays
    /\ \E id \in MenuIds, o \in WindowOutcomes :
         LET r == IF id = "quit" THEN show_window(window, o, NoFw)
                  ELSE Res(window, "Ok", NoFw) IN
           /\ window' = r.window
           /\ fw' = [fw EXCEPT ![t] = r.fw]
           /\ result' = [result EXCEPT ![t] = "()"]
           /\ exit_code' = IF id = "show" THEN "exit(0)" ELSE exit_code
           /\ toggles' = <<>>
           /\ Enter(t, "handle_menu_event", [NoArg EXCEPT !.event = id], "done")
    /\ UNCHANGED <<mgr, held, env, tray, state, info>>

\* A menu event is delivered to the on_menu_event closure (tray.rs 94-96),
\* which calls handle_menu_event (136-150).
handle_menu_event(t) ==
    /\ CanCall(t)
    /\ TrayId \in trays
    /\ \E id \in MenuIds, o \in WindowOutcomes :
         LET r == IF id = "show" THEN show_window(window, o, NoFw)
                  ELSE Res(window, "Ok", NoFw) IN
           /\ window' = r.window
           /\ fw' = [fw EXCEPT ![t] = r.fw]
           /\ result' = [result EXCEPT ![t] = "()"]
           /\ exit_code' = IF id = "quit" THEN "exit(0)" ELSE exit_code
           /\ toggles' = <<>>
           /\ Enter(t, "handle_menu_event", [NoArg EXCEPT !.event = id], "done")
    /\ UNCHANGED <<mgr, held, env, tray, state, info>>

\* The entry point's value goes back to the caller; the frame is gone.
Return(t) ==
    /\ At(t, "done")
    /\ pc' = [pc EXCEPT ![t] = "idle"]
    /\ op' = [op EXCEPT ![t] = "none"]
    /\ arg' = [arg EXCEPT ![t] = NoArg]
    /\ state' = [state EXCEPT ![t] = NoState]
    /\ info' = [info EXCEPT ![t] = NoInfo]
    /\ fw' = [fw EXCEPT ![t] = NoFw]
    /\ result' = [result EXCEPT ![t] = "none"]
    /\ UNCHANGED <<mgr, held, env, tray, window, exit_code, toggles>>

-----------------------------------------------------------------------------
\* Every entry point of the file.
Next ==
    \E t \in Threads :
        \/ call_setup_tray(t)
        \/ store_tray_icon_id(t)
        \/ tray_icon_id_drop(t)
        \/ call_update_tray_recording_state(t)
        \/ set_recording_state(t)
        \/ set_recording_state_drop(t)
        \/ call_update_tray_processing_state(t)
        \/ update_tray_icon(t)
        \/ lock_tray_icon_id(t)
        \/ tray_by_id(t)
        \/ set_tooltip(t)
        \/ read_icon(t)
        \/ set_icon(t)
        \/ call_set_tray_settings(t)
        \/ update_settings(t)
        \/ close_to_tray_drop(t)
        \/ update_start_minimized(t)
        \/ start_minimized_drop(t)
        \/ toggle_window_visibility(t)
        \/ handle_tray_event(t)
        \/ handle_menu_event(t)
        \/ Return(t)

\* The entry points that take a TrayManager lock.
NextLocks ==
    \E t \in Threads :
        \/ call_setup_tray(t)
        \/ store_tray_icon_id(t)
        \/ tray_icon_id_drop(t)
        \/ call_update_tray_recording_state(t)
        \/ set_recording_state(t)
        \/ set_recording_state_drop(t)
        \/ call_update_tray_processing_state(t)
        \/ update_tray_icon(t)
        \/ lock_tray_icon_id(t)
        \/ tray_by_id(t)
        \/ set_tooltip(t)
        \/ read_icon(t)
        \/ set_icon(t)
        \/ call_set_tray_settings(t)
        \/ update_settings(t)
        \/ close_to_tray_drop(t)
        \/ update_start_minimized(t)
        \/ start_minimized_drop(t)
        \/ Return(t)

\* The two commands that refresh the tray.
NextTray ==
    \E t \in Threads :
        \/ call_update_tray_recording_state(t)
        \/ set_recording_state(t)
        \/ set_recording_state_drop(t)
        \/ call_update_tray_processing_state(t)
        \/ update_tray_icon(t)
        \/ lock_tray_icon_id(t)
        \/ tray_by_id(t)
        \/ set_tooltip(t)
        \/ read_icon(t)
        \/ set_icon(t)
        \/ Return(t)

\* Entry points run one at a time, and any framework call may fail.
InitSerial == Init /\ serial /\ ~reliable

\* Entry points overlap; the tray calls and the icon read succeed.  The
\* window is not touched by the entry points that take a lock.
InitConcurrent ==
    /\ Init
    /\ ~serial
    /\ reliable
    /\ window = [exists |-> TRUE, visible |-> TRUE, focused |-> TRUE]

\* InitConcurrent after a successful setup_tray (tray.rs 87-104) with a
\* TrayManager registered.
InitTray ==
    /\ is_recording = FALSE
    /\ close_to_tray = FALSE
    /\ start_minimized = FALSE
    /\ tray_icon_id = TrayId
    /\ held = [l \in Locks |-> Free]
    /\ managed = TRUE
    /\ serial = FALSE
    /\ reliable = TRUE
    /\ trays = {TrayId}
    /\ tooltip = "Whispering - Idle"
    /\ icon = "default"
    /\ window = [exists |-> TRUE, visible |-> TRUE, focused |-> TRUE]
    /\ exit_code = "running"
    /\ toggles = <<>>
    /\ pc = [t \in Threads |-> "idle"]
    /\ op = [t \in Threads |-> "none"]
    /\ arg = [t \in Threads |-> NoArg]
    /\ state = [t \in Threads |-> NoState]
    /\ info = [t \in Threads |-> NoInfo]
    /\ fw = [t \in Threads |-> NoFw]
    /\ result = [t \in Threads |-> "none"]

\* All entry points, one at a time.
SeqSpec == InitSerial /\ [][Next]_vars

\* The lock-taking entry points, overlapping.
Spec == InitConcurrent /\ [][NextLocks]_vars

\* The tray-refreshing commands, overlapping, once the tray is set up.
TraySpec == InitTray /\ [][NextTray]_vars

-----------------------------------------------------------------------------
\* Vocabulary of the properties.

\* The tooltip and icon path the file gives each TrayState (tray.rs 200-202).
TooltipOf(s) ==
    CASE s = "Idle" -> "Whispering - Idle"
      [] s = "Recording" -> "Whispering - Recording"
      [] s = "Processing" -> "Whispering - Processing"

IconOf(s) ==
    CASE s = "Idle" -> "icons/tray-idle.png"
      [] s = "Recording" -> "icons/tray-recording.png"
      [] s = "Processing" -> "icons/tray-processing.png"

\* The tooltips as section 4.5 of the specification prints them.
ShortTooltipOf(s) ==
    CASE s = "Idle" -> "Idle"
      [] s = "Recording" -> "Recording"
      [] s = "Processing" -> "Processing"

\* Thread t is in (about to return from) a tray lookup, set_tooltip, the icon
\* read or set_icon.
InFrameworkCall(t) == pc[t] \in {"tray_by_id", "set_tooltip", "read_icon", "set_icon"}

\* Thread t is about to make, or has just made, the window calls of a window
\* entry point.
InWindowCall(t) ==
    \/ pc[t] = "idle"
    \/ pc[t] = "done" /\ op[t] \in {"toggle_window_visibility", "handle_tray_event",
                                   "handle_menu_event"}

\* Thread t has finished a call of entry point o.
Done(t, o) == pc[t] = "done" /\ op[t] = o

\* Thread t runs window entry point o in this step.
Runs(t, o) == pc[t] = "idle" /\ pc'[t] = "done" /\ op'[t] = o

\* No framework call recorded in f failed.
NoErr(f) == \A c \in DOMAIN f : f[c] \in {NotCalled, "ok"}

\* Window outcomes that agree with the calls recorded in f.
Agree(f) == {o \in WindowOutcomes :
               \A c \in DOMAIN o : f[c] # NotCalled => f[c] = o[c]}

\* The TrayState update_tray_recording_state(r) displays.
RecordingState(r) == IF r THEN "Recording" ELSE "Idle"

-----------------------------------------------------------------------------
\* C1: a fresh TrayManager is not recording; set_recording_state(r) makes
\* is_recording() return r, and nothing else writes the flag, so that a later
\* is_recording() with no other set_recording_state in between returns r.
C1_SetThenIsRecording ==
    /\ get_is_recording = FALSE
    /\ [][ /\ \A t \in Threads :
                pc[t] = "set_recording_state" /\ pc'[t] # pc[t]
                   => get_is_recording' = arg[t].flag
           /\ get_is_recording' # get_is_recording
                => \E t \in Threads :
                     pc[t] = "set_recording_state" /\ pc'[t] # pc[t] ]_vars

C1_Witness ==
    \E t \in Threads :
        pc[t] = "set_recording_state_drop" /\ arg[t].flag /\ get_is_recording

\* C2 as stated: a thread inside a framework call or the icon read holds none
\* of the four locks.
C2_NoLockAcrossFrameworkCall ==
    \A t \in Threads :
        InFrameworkCall(t) \/ InWindowCall(t) => \A l \in Locks : held[l] # t

\* C2 amended: a thread inside a framework call or the icon read never holds
\* the is_recording, close_to_tray or start_minimized lock, and a thread
\* between entry points (where the window entry points make their calls)
\* holds no lock at all; update_tray_icon does hold the tray_icon_id lock
\* across its tray lookup, set_tooltip, icon read and set_icon.
C2_OnlyTrayIconIdLockAcrossFrameworkCall ==
    \A t \in Threads :
        /\ InFrameworkCall(t)
             => /\ \A l \in Locks \ {"tray_icon_id"} : held[l] # t
                /\ held["tray_icon_id"] = t
        /\ InWindowCall(t) => \A l \in Locks : held[l] # t

C2_Witness ==
    \E t \in Threads : pc[t] = "set_tooltip" /\ held["tray_icon_id"] = t

\* C3 as stated: the mapping gives the tooltips "Idle", "Recording" and
\* "Processing".
C3_MappingShortTooltips ==
    \A t \in Threads :
        info[t] # NoInfo => info[t] = <<IconOf(state[t]), ShortTooltipOf(state[t])>>

\* C3 amended: update_tray_icon gets a pair for each of Idle, Recording and
\* Processing, always the same one: Idle -> ("icons/tray-idle.png",
\* "Whispering - Idle"), Recording -> ("icons/tray-recording.png",
\* "Whispering - Recording"), Processing -> ("icons/tray-processing.png",
\* "Whispering - Processing").
C3_MappingTotalAndStable ==
    \A t \in Threads :
        /\ pc[t] \in {"lock_tray_icon_id", "tray_by_id", "set_tooltip", "read_icon",
                      "set_icon"}
             => state[t] \in TrayState /\ info[t] # NoInfo
        /\ info[t] # NoInfo
             => /\ state[t] = "Idle"
                  => info[t] = <<"icons/tray-idle.png", "Whispering - Idle">>
                /\ state[t] = "Recording"
                  => info[t] = <<"icons/tray-recording.png", "Whispering - Recording">>
                /\ state[t] = "Processing"
                  => info[t] = <<"icons/tray-processing.png", "Whispering - Processing">>

C3_Witness ==
    \E t \in Threads :
        /\ state[t] = "Processing"
        /\ info[t] = <<"icons/tray-processing.png", "Whispering - Processing">>
        /\ tooltip = "Whispering - Processing"

\* C4: after update_settings(c, m) should_close_to_tray() returns c, whatever
\* m is, and no step of update_settings changes is_recording or tray_icon_id.
C4_UpdateSettingsThenShouldClose ==
    /\ [](\A t \in Threads :
            Done(t, "set_tray_settings") => should_close_to_tray = arg[t].flag)
    /\ [][\A t \in Threads :
            op[t] = "set_tray_settings" /\ pc'[t] # pc[t] /\ pc[t] # "done"
               => UNCHANGED <<is_recording, tray_icon_id>>]_vars

C4_Witness ==
    \E t \in Threads :
        /\ Done(t, "set_tray_settings")
        /\ arg[t].flag /\ ~arg[t].flag2
        /\ should_close_to_tray /\ ~start_minimized

\* C5: with the main window present and every framework call succeeding, a
\* toggle_window_visibility call flips the visibility, and two successive
\* calls give back the visibility the first one found.
C5_ToggleTwiceRestores ==
    /\ Len(toggles) >= 1 => window.visible = ~toggles[Len(toggles)]
    /\ Len(toggles) = 2 => window.visible = toggles[1]

C5_Witness ==
    \E t \in Threads :
        /\ Done(t, "toggle_window_visibility")
        /\ toggles = <<TRUE, FALSE>>
        /\ window.visible

\* C6 as stated: with the icon file unreadable or undecodable,
\* update_tray_icon returns Ok, the tooltip is that of the target state and
\* the icon is untouched.
C6_TooltipSetIconKept ==
    \A t \in Threads :
        pc[t] = "done" /\ fw[t].read_icon \in {"read_err", "decode_err"}
           => /\ result[t] = "Ok"
              /\ tooltip = TooltipOf(state[t])
              /\ fw[t].set_icon = NotCalled

\* C6 amended: with the icon file unreadable or undecodable, update_tray_icon
\* returns Ok, the tooltip is that of the target state whenever the
\* framework's set_tooltip call succeeded (its failure is dropped), and the
\* icon is as before the call: set_icon is not called and no earlier step of
\* update_tray_icon changes the icon.
C6_TooltipSetIfAcceptedIconKept ==
    /\ [](\A t \in Threads :
            pc[t] = "done" /\ fw[t].read_icon \in {"read_err", "decode_err"}
               => /\ result[t] = "Ok"
                  /\ fw[t].set_tooltip = "ok" => tooltip = TooltipOf(state[t])
                  /\ fw[t].set_icon = NotCalled)
    /\ [][\A t \in Threads :
            /\ pc[t] \in {"update_tray_icon", "lock_tray_icon_id", "tray_by_id",
                          "set_tooltip", "read_icon"}
            /\ pc'[t] # pc[t]
            => icon' = icon]_vars

C6_Witness ==
    \E t \in Threads :
        /\ pc[t] = "done" /\ fw[t].read_icon = "decode_err"
        /\ fw[t].set_tooltip = "ok"
        /\ state[t] = "Processing" /\ tooltip = "Whispering - Processing"
        /\ icon = "default"

\* C7: menu event "quit" asks for exit with code 0; "show" leaves the main
\* window (if there is one and show and set_focus succeed) visible and
\* focused; any other id changes neither the window nor a TrayManager field
\* and does not exit.
C7_MenuEvent ==
    /\ [](\A t \in Threads :
            Done(t, "handle_menu_event")
               => /\ arg[t].event = "quit" => exit_code = "exit(0)"
                  /\ arg[t].event = "show" /\ window.exists /\ NoErr(fw[t])
                       => window.visible /\ window.focused)
    /\ [][\A t \in Threads :
            Runs(t, "handle_menu_event") /\ arg'[t].event \notin {"show", "quit"}
               => UNCHANGED <<window, mgr, exit_code>>]_vars

C7_Witness ==
    \E t \in Threads :
        /\ Done(t, "handle_menu_event")
        /\ arg[t].event = "quit"
        /\ exit_code = "exit(0)"

\* C8 as stated: after update_tray_recording_state(r), run alone, the flag is
\* r, the command returned Ok and, with a tray icon registered, the tooltip
\* and the icon tried are those of Recording (r) or Idle (not r).
C8_FlagAndTooltip ==
    \A t \in Threads :
        Done(t, "update_tray_recording_state")
           => /\ is_recording = arg[t].flag
              /\ result[t] = "Ok"
              /\ tray_icon_id # NoId
                   => /\ tooltip = TooltipOf(RecordingState(arg[t].flag))
                      /\ fw[t].read_icon # NotCalled
                      /\ info[t][1] = IconOf(RecordingState(arg[t].flag))

\* C8 amended: after update_tray_recording_state(r), run alone, the flag is
\* r, the command returned Ok and, with a tray icon registered, the icon file
\* read is that of Recording (r) or Idle (not r) and so is the tooltip
\* ("Whispering - Recording", "Whispering - Idle") whenever the framework's
\* set_tooltip call succeeded.
C8_FlagAndTooltipIfAccepted ==
    \A t \in Threads :
        Done(t, "update_tray_recording_state")
           => /\ is_recording = arg[t].flag
              /\ result[t] = "Ok"
              /\ tray_icon_id # NoId
                   => /\ fw[t].set_tooltip = "ok"
                           => tooltip = TooltipOf(RecordingState(arg[t].flag))
                      /\ fw[t].set_tooltip # NotCalled
                      /\ fw[t].read_icon # NotCalled
                      /\ info[t][1] = IconOf(RecordingState(arg[t].flag))

C8_Witness ==
    \E t \in Threads :
        /\ Done(t, "update_tray_recording_state")
        /\ arg[t].flag /\ is_recording
        /\ fw[t].set_tooltip = "ok" /\ tooltip = "Whispering - Recording"
        /\ fw[t].read_icon = "ok" /\ info[t][1] = "icons/tray-recording.png"

\* C9 as stated: a left-button-up click does to the window what
\* toggle_window_visibility does with the same framework outcomes, a failed
\* visibility query included; any other tray event changes nothing.
C9_TrayClickAsToggle ==
    [][\A t \in Threads :
         Runs(t, "handle_tray_event")
            => IF arg'[t].event = "Click(Left,Up)"
               THEN \E o \in Agree(fw'[t]) :
                       window' = toggle_window_visibility_fn(window, o).window
               ELSE UNCHANGED <<window, mgr>>]_vars

\* C9 amended: a left-button-up click does what toggle_window_visibility
\* does when the visibility query succeeds (visible -> hidden, not visible ->
\* shown and focused); when the query fails the handler takes the window for
\* not visible and shows and focuses it; any other tray event changes neither
\* the window nor a TrayManager field.
C9_TrayClickTogglesUnlessQueryFails ==
    [][\A t \in Threads :
         Runs(t, "handle_tray_event")
            => IF arg'[t].event = "Click(Left,Up)"
               THEN /\ UNCHANGED mgr
                    /\ fw'[t].is_visible = "ok"
                         => \E o \in Agree(fw'[t]) :
                              window' = toggle_window_visibility_fn(window, o).window
                    /\ fw'[t].is_visible = "ok" /\ window.visible /\ NoErr(fw'[t])
                         => ~window'.visible
                    /\ fw'[t].is_visible = "ok" /\ ~window.visible /\ NoErr(fw'[t])
                         => window'.visible /\ window'.focused
                    /\ fw'[t].is_visible = "err"
                         => \E o \in Agree(fw'[t]) :
                              window' = show_window(window, o, NoFw).window
                    /\ ~window.exists => window' = window
               ELSE UNCHANGED <<window, mgr>>]_vars

C9_Witness ==
    \E t \in Threads :
        /\ Done(t, "handle_tray_event")
        /\ arg[t].event = "Click(Left,Up)"
        /\ fw[t].is_visible = "err" /\ fw[t].show = "ok" /\ fw[t].set_focus = "ok"
        /\ window.visible /\ window.focused

\* C10: with the tray set up and every framework call succeeding, whenever no
\* command is in progress the tooltip is the Recording one only if
\* is_recording is set, and is_recording is set only if the tooltip is not
\* the Idle one.
C10_DisplayAgreesWithFlag ==
    (\A t \in Threads : pc[t] = "idle")
       => /\ tooltip = TooltipOf("Recording") => is_recording
          /\ is_recording => tooltip # TooltipOf("Idle")

=============================================================================
